---- MODULE Spec2Model ----
(***************************************************************************)
(* OTP authentication flow of the listings backend: the in-memory session  *)
(* map otpSessions, the send-otp and verify-otp handlers of                *)
(* routes/usersRoutes.js, and the 2Factor gateway client they call.        *)
(*                                                                         *)
(* A handler runs atomically between two awaits (single-threaded event     *)
(* loop), so verify-otp is one action per stretch of code between awaits:  *)
(*   VerifyStart      lines 199-240  (guards, then the gateway call)       *)
(*   GatewayReturn    lines 242-259  (failure branch, or mark verified)    *)
(*   FindOneReturn    lines 259-299  (find user, build or update the doc)  *)
(*   SaveUserReturn   lines 274/294-319 (user write, build the lead)       *)
(*   SaveLeadReturn   lines 319-375  (lead write, delete session, answer)  *)
(* and the catch block (377-383) is VerifyThrow.  send-otp touches the map *)
(* only after its single await, so in Spec it is one action taken at that  *)
(* moment (SendOtp).  SpecSend follows the same handler through the awaits *)
(* of the gateway client (SendStart, SmsReturn, VoiceReturn), and          *)
(* SpecFormat applies the two phone formatters to a range of inputs.       *)
(***************************************************************************)
EXTENDS Integers, Sequences, FiniteSets, TLC

\* ---------------------------------------------------------------- bounds
MaxInFlight == 2
MaxSessions == 2
MaxLeads == 2
MaxSlack == 1
MaxVaried == 2
\* Watchlist and property requests in flight at once.
MaxReqs == 2
\* Entries of a watchlist beyond which no add is written.
MaxWatch == 2

\* ------------------------------------------------------- program constants
TenMinutes == 10 * 60 * 1000
MaxAttempts == 3

Digits == {"0", "1", "2", "3", "4", "5", "6", "7", "8", "9"}

\* Request bodies the model submits.
PhoneA == <<"9", "8", "7", "6", "5", "4", "3", "2", "1", "0">>
PhoneB == <<"9", "1", "2", "3", "4", "5", "6", "7", "8", "9">>
PhoneShort == <<"9", "8", "7">>
SendBodies ==
  { [phone |-> PhoneA, name |-> "Asha", city |-> "Pune"],
    [phone |-> PhoneShort, name |-> "Asha", city |-> "Pune"],
    [phone |-> <<>>, name |-> "Asha", city |-> "Pune"] }
\* verify-otp bodies: a code for an issued session id, or for an id the
\* gateway never issued (-1), or a body with a field missing.
VerifyBodies(issued) ==
  { [sessionId |-> sid, otp |-> otp, name |-> "", city |-> ""] :
      sid \in issued \cup {-1}, otp \in {"right", "wrong"} }
  \cup { [sessionId |-> 0, otp |-> "right", name |-> "", city |-> ""],
         [sessionId |-> -1, otp |-> "", name |-> "", city |-> ""] }
DeliveryResults == {"Success", "Error"}
\* A body whose phone has ten characters, not all of them digits, and the
\* bodies SpecSend submits.
PhoneLetters == <<"9", "8", "7", "6", "5", "a", "b", "c", "d", "e">>
SendStartBodies ==
  SendBodies \cup { [phone |-> PhoneB, name |-> "Ravi", city |-> "Delhi"],
                    [phone |-> PhoneLetters, name |-> "Asha", city |-> "Pune"] }
\* How one delivery attempt ends: Status Success; a non-success Status; no
\* answer (network error, timeout); an answer without data; no API key.
SendOutcomes == {"Success", "Rejected", "NetworkError", "Malformed", "NoApiKey"}
\* Phone strings given to the formatters: ten digits whose first MaxVaried
\* digits range over LeadDigits, the same with "+", "91" or "+91" in front,
\* and two strings that are too short.
PhoneLength == 10
LeadDigits == {"9", "1", "6"}
Filler == <<"2", "3", "4", "5", "6", "7", "8", "9", "0">>
TenDigitPhones ==
  { lead \o SubSeq(Filler, 1, PhoneLength - MaxVaried) : lead \in [1..MaxVaried -> LeadDigits] }
FormatInputs ==
  TenDigitPhones
  \cup { <<"+">> \o p : p \in TenDigitPhones }
  \cup { <<"9", "1">> \o p : p \in TenDigitPhones }
  \cup { <<"+", "9", "1">> \o p : p \in TenDigitPhones }
  \cup { PhoneShort, <<"+">> \o PhoneShort }
\* The instants at which something happens: the start, exactly ten minutes
\* later, and a few milliseconds after that.
Instants == {0} \cup {TenMinutes + k : k \in 0..MaxSlack}

VARIABLES
  now,          \* Date.now(), in milliseconds since process start
  otpSessions,  \* keys of the Map otpSessions
  sessions,     \* the session objects, by gateway session id (heap)
  users,        \* the User collection, a sequence of documents
  leads,        \* the Lead collection, a sequence of documents
  calls,        \* verify-otp requests in flight, in order of arrival
  last,         \* the answer sent by the step just taken, if it sent one
  deleted,      \* history: ids removed from the map by otpSessions.delete
  sends,        \* send-otp requests in flight inside sendOTP (SpecSend)
  fmt,          \* a phone string and what the formatters made of it (SpecFormat)
  production,   \* process.env.NODE_ENV === 'production'
  jar,          \* the cookies the client holds for this server
  properties,   \* the Managedproperty collection: createdBy by property id, 0 if none
  myProperties, \* user.myProperties, by user id
  watchlist,    \* user.watchlist, by user id
  reqs,         \* watchlist and property requests in flight
  reply         \* the answer of a cookie, watchlist or property route, by the step just taken

\* The state of the routes outside the OTP flow.
site == <<production, jar, properties, myProperties, watchlist, reqs, reply>>

vars == <<now, otpSessions, sessions, users, leads, calls, last, deleted, sends, fmt, site>>

\* User ids and property ids of the watchlist and property routes; caller 0
\* carries no valid token, caller Stranger a valid token of a user whose
\* document is gone.
UserIds == {1, 2}
PropertyIds == {1, 2}
Stranger == 3
Callers == {0} \cup UserIds \cup {Stranger}

NoReply == [route |-> "none", caller |-> 0, user |-> 0, propertyId |-> 0, status |-> 0,
            error |-> "none", held |-> {}]

\* No cookie, no property, empty arrays, nothing in flight.
InitSite ==
  /\ production = FALSE
  /\ jar = {}
  /\ properties = [p \in PropertyIds |-> 0]
  /\ myProperties = [u \in UserIds |-> <<>>]
  /\ watchlist = [u \in UserIds |-> <<>>]
  /\ reqs = <<>>
  /\ reply = NoReply

\* ------------------------------------------------------ phone formatting
RECURSIVE StripNonDigits(_)
StripNonDigits(s) ==
  IF s = <<>> THEN <<>>
  ELSE IF Head(s) \in Digits THEN <<Head(s)>> \o StripNonDigits(Tail(s))
       ELSE StripNonDigits(Tail(s))

StartsWith(s, p) == Len(s) >= Len(p) /\ SubSeq(s, 1, Len(p)) = p

formatPhoneNumber(phoneNumber) ==
  LET cleaned == StripNonDigits(phoneNumber) IN
  IF StartsWith(cleaned, <<"9", "1">>) THEN <<"+">> \o cleaned
  ELSE IF Len(cleaned) = PhoneLength THEN <<"+", "9", "1">> \o cleaned
  ELSE IF StartsWith(phoneNumber, <<"+">>) THEN phoneNumber
  ELSE <<"+">> \o cleaned

\* Mutant of formatPhoneForAPI: 91 is put in front without looking for one.
formatPhoneForAPIAlwaysPrefixes(phoneNumber) ==
  <<"9", "1">> \o StripNonDigits(phoneNumber)

formatPhoneForAPI(phoneNumber) ==
  LET cleaned == StripNonDigits(phoneNumber) IN
  IF StartsWith(cleaned, <<"9", "1">>) THEN cleaned
  ELSE IF Len(cleaned) = PhoneLength THEN <<"9", "1">> \o cleaned
  ELSE cleaned

\* ------------------------------------------------------- gateway client
\* sendSMSOTP / sendVoiceOTP: one delivery attempt.  outcome is how the
\* attempt ends: Status Success with the session id in Details, or a failure
\* whose reason (Details of a non-success answer, or the message of the
\* error thrown) is the error of the result.
sendSMSOTP(apiFormattedPhone, outcome, id) ==
  IF outcome = "Success"
  THEN [success |-> TRUE, sessionId |-> id, error |-> "none"]
  ELSE [success |-> FALSE, sessionId |-> 0, error |-> outcome]

sendVoiceOTP(apiFormattedPhone, outcome, id) ==
  IF outcome = "Success"
  THEN [success |-> TRUE, sessionId |-> id, error |-> "none"]
  ELSE [success |-> FALSE, sessionId |-> 0, error |-> outcome]

\* Mutant of sendOTP: the channel of the result is always sms.
sendOTPAlwaysSms(phoneNumber, sms, voice, id) ==
  LET smsResult == sendSMSOTP(formatPhoneForAPI(phoneNumber), sms, id)
      voiceResult == sendVoiceOTP(formatPhoneForAPI(phoneNumber), voice, id)
  IN
  IF smsResult.success \/ voiceResult.success
  THEN [success |-> TRUE, type |-> "sms",
        sessionId |-> IF smsResult.success THEN smsResult.sessionId
                      ELSE voiceResult.sessionId,
        dbFormattedPhone |-> formatPhoneNumber(phoneNumber),
        smsError |-> "none", voiceError |-> "none"]
  ELSE [success |-> FALSE, sessionId |-> 0, type |-> "none",
        dbFormattedPhone |-> <<>>,
        smsError |-> smsResult.error, voiceError |-> voiceResult.error]

\* sendOTP (lines 30-87): the result of SMS first, voice only when SMS
\* failed.  The error of a double failure is "Unable to send OTP. SMS
\* error: <smsError>. Voice error: <voiceError>", kept as its two reasons.
sendOTP(phoneNumber, sms, voice, id) ==
  LET apiFormattedPhone == formatPhoneForAPI(phoneNumber)
      dbFormattedPhone == formatPhoneNumber(phoneNumber)
      smsResult == sendSMSOTP(apiFormattedPhone, sms, id)
      voiceResult == sendVoiceOTP(apiFormattedPhone, voice, id)
  IN
  IF smsResult.success
  THEN [success |-> TRUE, sessionId |-> smsResult.sessionId, type |-> "sms",
        dbFormattedPhone |-> dbFormattedPhone,
        smsError |-> "none", voiceError |-> "none"]
  ELSE IF voiceResult.success
  THEN [success |-> TRUE, sessionId |-> voiceResult.sessionId, type |-> "voice",
        dbFormattedPhone |-> dbFormattedPhone,
        smsError |-> "none", voiceError |-> "none"]
  ELSE [success |-> FALSE, sessionId |-> 0, type |-> "none",
        dbFormattedPhone |-> <<>>,
        smsError |-> smsResult.error, voiceError |-> voiceResult.error]

\* verifyOTP: success only when the provider answers Status Success, which
\* it does only for the code it sent; every other outcome (rejection,
\* network error, timeout, missing API key) is success: false.
verifyOTP(otp, provider) == otp = "right" /\ provider = "Success"

\* The error of a failed verifyOTP: the provider answered and rejected the
\* code (lines 181-186), or the call itself failed, axios or getApiKey
\* having thrown (lines 188-193).  The handler never reads it.
verifyError(otp, provider) ==
  IF provider = "Success" THEN "OTP Mismatch" ELSE "Request failed"

\* ------------------------------------------------------------- answers
NoResp == [status |-> 0, message |-> "none", remaining |-> 0,
           isNew |-> FALSE, isReturning |-> FALSE, token |-> FALSE,
           cookies |-> FALSE, smsError |-> "none", voiceError |-> "none"]

\* Mutant of Fail: a failure answer that carries credentials.
FailWithToken(st, msg) ==
  [NoResp EXCEPT !.status = st, !.message = msg, !.token = TRUE, !.cookies = TRUE]

\* res.status(st).json({ success: false, message }).
Fail(st, msg) == [NoResp EXCEPT !.status = st, !.message = msg]

\* A verify-otp request and its local variables.  afterDelete, confirmed,
\* sawUser, phoneNumber, usersCreated and leadsCreated are history: whether
\* the session id had been deleted before the request arrived, whether the
\* gateway confirmed its code, whether a user with the phone number was
\* stored when it looked, the number it looked up, and how many documents it
\* inserted.  lastLogin is the new Date() of line 271 / 290, taken before
\* the await of user.save().
NewCall(sid, otp, name, city) ==
  [pc |-> "start", sessionId |-> sid, otp |-> otp, name |-> name, city |-> city,
   userId |-> 0, userName |-> "", userCity |-> "", isNew |-> FALSE,
   isReturning |-> FALSE, afterDelete |-> sid \in deleted, confirmed |-> FALSE,
   sawUser |-> FALSE, phoneNumber |-> <<>>, usersCreated |-> 0, leadsCreated |-> 0,
   gatewayError |-> "none", lastLogin |-> 0]

\* phone, attempts and channel belong to a send-otp answer: the phone of the
\* request, the delivery attempts sendOTP made for it, and result.type.
NoRequest == [kind |-> "none", sessionId |-> 0, otp |-> "", resp |-> NoResp,
              afterDelete |-> FALSE, confirmed |-> FALSE, sawUser |-> FALSE,
              phoneNumber |-> <<>>, usersCreated |-> 0, leadsCreated |-> 0,
              gatewayError |-> "none", phone |-> <<>>, attempts |-> <<>>,
              channel |-> "none"]

\* The answer r to a verify-otp request.
Answer(call, r) ==
  [NoRequest EXCEPT
     !.kind = "verify", !.sessionId = call.sessionId, !.otp = call.otp, !.resp = r,
     !.afterDelete = call.afterDelete, !.confirmed = call.confirmed,
     !.sawUser = call.sawUser, !.phoneNumber = call.phoneNumber,
     !.usersCreated = call.usersCreated, !.leadsCreated = call.leadsCreated,
     !.gatewayError = call.gatewayError]

\* Mutants of WelcomeAnswer: the flags of the answer are constants.
WelcomeAnswerNeverNew(isNewUser, isReturningUser) ==
  [status |-> 200, message |-> "ok", remaining |-> 0,
   isNew |-> FALSE, isReturning |-> TRUE, token |-> TRUE,
   cookies |-> TRUE, smsError |-> "none", voiceError |-> "none"]

WelcomeAnswerAlwaysNew(isNewUser, isReturningUser) ==
  [status |-> 200, message |-> "ok", remaining |-> 0,
   isNew |-> TRUE, isReturning |-> FALSE, token |-> TRUE,
   cookies |-> TRUE, smsError |-> "none", voiceError |-> "none"]

\* Lines 326-375: the success answer, its tokens and its cookies.
WelcomeAnswer(isNewUser, isReturningUser) ==
  [status |-> 200, message |-> "ok", remaining |-> 0,
   isNew |-> isNewUser, isReturning |-> isReturningUser, token |-> TRUE,
   cookies |-> TRUE, smsError |-> "none", voiceError |-> "none"]

\* The answer r to the send-otp request for phone, after the delivery
\* attempts made for it; sid and channel are the session id and the type of
\* the gateway client's result.
SendAnswer(sid, r) == [NoRequest EXCEPT !.kind = "send", !.sessionId = sid, !.resp = r]

SendReport(phone, attempts, channel, sid, r) ==
  [SendAnswer(sid, r) EXCEPT !.phone = phone, !.attempts = attempts, !.channel = channel]

\* ------------------------------------------------------ session objects
\* A session object lives while the map holds it or a request in flight
\* holds the reference it read at line 209; after that it is garbage.
Freed == [phoneNumber |-> <<>>, phone |-> <<>>, name |-> "",
          createdAt |-> 0, attempts |-> 0, verified |-> FALSE]

Collect(heap, store, inflight) ==
  [sid \in DOMAIN heap |->
     IF sid \in store \/ \E i \in 1..Len(inflight) : inflight[i].sessionId = sid
     THEN heap[sid] ELSE Freed]

\* No formatter has been applied to input yet.
NoFormat == [input |-> <<>>, api |-> <<>>, apiAgain |-> <<>>, apiApplied |-> 0,
             db |-> <<>>, dbAgain |-> <<>>, dbApplied |-> 0]

Init ==
  /\ now = 0
  /\ otpSessions = {}
  /\ sessions = <<>>
  /\ users = <<>>
  /\ leads = <<>>
  /\ calls = <<>>
  /\ last = NoRequest
  /\ deleted = {}
  /\ sends = <<>>
  /\ fmt = NoFormat
  /\ InitSite

Tick ==
  /\ \E t \in Instants : t > now /\ now' = t
  /\ last' = NoRequest
  /\ UNCHANGED <<otpSessions, sessions, users, leads, calls, deleted>>

\* ------------------------------------------------------------ send-otp
\* Mutant of Expired: the window is one millisecond too long.
ExpiredLate(createdAt, t) == createdAt < t - TenMinutes - 1

\* session.createdAt < tenMinutesAgo (lines 165-167 and 219-220).
Expired(createdAt, t) == createdAt < t - TenMinutes

\* Mutant of AttemptsExhausted: > in place of >=.
AttemptsExhaustedLate(attempts) == attempts > MaxAttempts

\* session.attempts >= 3 (line 229).
AttemptsExhausted(attempts) == attempts >= MaxAttempts

\* Mutant of NewSession: the session starts with one attempt counted.
NewSessionOneAttempt(body, result, phoneNumber, t) ==
  [phoneNumber |-> IF result.dbFormattedPhone # <<>> THEN result.dbFormattedPhone
                   ELSE phoneNumber,
   phone |-> body.phone, name |-> body.name,
   createdAt |-> t, attempts |-> 1, verified |-> FALSE]

\* Lines 150-162.  city, propertyId, propertyName, propertyUrl and otpType
\* are stored too, and no code reads them back: they are left out.
NewSession(body, result, phoneNumber, t) ==
  [phoneNumber |-> IF result.dbFormattedPhone # <<>> THEN result.dbFormattedPhone
                   ELSE phoneNumber,
   phone |-> body.phone, name |-> body.name,
   createdAt |-> t, attempts |-> 0, verified |-> FALSE]

\* Mutant of Swept: the sweep removes nothing.
SweptNothing(heap, ids, t) == {}

\* Lines 165-170: the ids among ids whose session is older than ten minutes.
Swept(heap, ids, t) == {id \in ids : Expired(heap[id].createdAt, t)}

\* The heap once the session of a successful result is stored (line 150).
\* Map.set replaces the entry of an id that is already a key.
WithSession(body, phoneNumber, result) ==
  IF result.sessionId \in DOMAIN sessions
  THEN [sessions EXCEPT ![result.sessionId] = NewSession(body, result, phoneNumber, now)]
  ELSE Append(sessions, NewSession(body, result, phoneNumber, now))

\* Mutant of SendFinish: the sweep runs on failure too.
SendFinishSweepsOnFailure(body, phoneNumber, result, attempts) ==
  LET stored == WithSession(body, phoneNumber, result) IN
  IF result.success
  THEN /\ otpSessions' = (otpSessions \cup {result.sessionId})
                           \ Swept(stored, otpSessions \cup {result.sessionId}, now)
       /\ sessions' = Collect(stored, otpSessions', calls)
       /\ deleted' = deleted \cup Swept(stored, otpSessions \cup {result.sessionId}, now)
       /\ last' = SendReport(body.phone, attempts, result.type, result.sessionId,
                    [NoResp EXCEPT !.status = 200,
                                   !.message = "OTP sent successfully to your mobile number"])
  ELSE /\ last' = SendReport(body.phone, attempts, result.type, 0,
                    [Fail(500, "Unable to send OTP")
                       EXCEPT !.smsError = result.smsError,
                              !.voiceError = result.voiceError])
       /\ otpSessions' = otpSessions \ Swept(sessions, otpSessions, now)
       /\ sessions' = Collect(sessions, otpSessions', calls)
       /\ deleted' = deleted \cup Swept(sessions, otpSessions, now)

\* Lines 146-185, the handler after the await of sendOTP: on success the
\* session is stored under the id of the result, the expired sessions are
\* swept and the id is answered; on failure the error of the result is
\* answered with status 500 and nothing else happens.
SendFinish(body, phoneNumber, result, attempts) ==
  LET stored == WithSession(body, phoneNumber, result) IN
  IF result.success
  THEN /\ otpSessions' = (otpSessions \cup {result.sessionId})
                           \ Swept(stored, otpSessions \cup {result.sessionId}, now)
       /\ sessions' = Collect(stored, otpSessions', calls)
       /\ deleted' = deleted \cup Swept(stored, otpSessions \cup {result.sessionId}, now)
       /\ last' = SendReport(body.phone, attempts, result.type, result.sessionId,
                    [NoResp EXCEPT !.status = 200,
                                   !.message = "OTP sent successfully to your mobile number"])
  ELSE /\ last' = SendReport(body.phone, attempts, result.type, 0,
                    [Fail(500, "Unable to send OTP")
                       EXCEPT !.smsError = result.smsError,
                              !.voiceError = result.voiceError])
       /\ UNCHANGED <<otpSessions, sessions, deleted>>

\* if (!phone || phone.length !== 10) (line 131).
InvalidPhone(phone) == phone = <<>> \/ Len(phone) # PhoneLength

\* One delivery attempt of sendOTP, and the attempts it makes when the
\* provider answers sms to the first and voice to the second.
Attempt(channel, to, outcome) == [channel |-> channel, to |-> to, outcome |-> outcome]

Attempts(phoneNumber, sms, voice) ==
  LET to == formatPhoneForAPI(phoneNumber) IN
  IF sms = "Success" THEN <<Attempt("sms", to, sms)>>
  ELSE <<Attempt("sms", to, sms), Attempt("voice", to, voice)>>

\* Lines 129-192.  The map is read and written only after the await of
\* sendOTP (line 144), so the handler acts at that moment.
SendOtp(body, sms, voice) ==
  LET phoneNumber == <<"+", "9", "1">> \o body.phone
      result == sendOTP(phoneNumber, sms, voice, Len(sessions) + 1)
  IN
  /\ IF InvalidPhone(body.phone)
     THEN /\ last' = SendReport(body.phone, <<>>, "none", 0,
                       Fail(400, "Please provide a valid 10-digit phone number"))
          /\ UNCHANGED <<otpSessions, sessions, deleted>>
     ELSE SendFinish(body, phoneNumber, result, Attempts(phoneNumber, sms, voice))
  /\ UNCHANGED <<now, users, leads, calls>>

\* ---------------------------------------------------------- verify-otp
Without(seq, c) == SubSeq(seq, 1, c - 1) \o SubSeq(seq, c + 1, Len(seq))

\* res.json / return: request c is answered and its locals die.
Respond(c, call, r) ==
  /\ last' = Answer(call, r)
  /\ calls' = Without(calls, c)

\* The request goes on to its next await.
Continue(c, call) ==
  /\ last' = NoRequest
  /\ calls' = IF c > Len(calls) THEN Append(calls, call)
              ELSE [calls EXCEPT ![c] = call]

\* Mutant of VerifyStart: the attempts check comes before the expiry check.
VerifyStartExhaustedFirst(body) ==
  LET sid == body.sessionId
      otp == body.otp
      call == NewCall(sid, otp, body.name, body.city)
      c == Len(calls) + 1
  IN
  /\ IF sid = 0 \/ otp = ""
     THEN /\ Respond(c, call, Fail(400, "Session ID and OTP are required"))
          /\ UNCHANGED <<otpSessions, sessions, deleted>>
     ELSE IF sid \notin otpSessions
     THEN /\ Respond(c, call, Fail(400, "Session expired or invalid. Please request a new OTP."))
          /\ UNCHANGED <<otpSessions, sessions, deleted>>
     ELSE IF AttemptsExhausted(sessions[sid].attempts)
     THEN /\ otpSessions' = otpSessions \ {sid}
          /\ deleted' = deleted \cup {sid}
          /\ Respond(c, call, Fail(400, "Maximum attempts exceeded. Please request a new OTP."))
          /\ sessions' = Collect(sessions, otpSessions', calls')
     ELSE IF Expired(sessions[sid].createdAt, now)
     THEN /\ otpSessions' = otpSessions \ {sid}
          /\ deleted' = deleted \cup {sid}
          /\ Respond(c, call, Fail(400, "Session has expired. Please request a new OTP."))
          /\ sessions' = Collect(sessions, otpSessions', calls')
     ELSE /\ Continue(c, [call EXCEPT !.pc = "gateway"])
          /\ UNCHANGED <<otpSessions, sessions, deleted>>
  /\ UNCHANGED <<now, users, leads>>

\* Lines 199-240: input check, lookup, expiry check, attempts check, and
\* for a usable session the call to the gateway (the await of line 240).
VerifyStart(body) ==
  LET sid == body.sessionId
      otp == body.otp
      call == NewCall(sid, otp, body.name, body.city)
      c == Len(calls) + 1
  IN
  /\ IF sid = 0 \/ otp = ""
     THEN /\ Respond(c, call, Fail(400, "Session ID and OTP are required"))
          /\ UNCHANGED <<otpSessions, sessions, deleted>>
     ELSE IF sid \notin otpSessions
     THEN /\ Respond(c, call, Fail(400, "Session expired or invalid. Please request a new OTP."))
          /\ UNCHANGED <<otpSessions, sessions, deleted>>
     ELSE IF Expired(sessions[sid].createdAt, now)
     THEN /\ otpSessions' = otpSessions \ {sid}
          /\ deleted' = deleted \cup {sid}
          /\ Respond(c, call, Fail(400, "Session has expired. Please request a new OTP."))
          /\ sessions' = Collect(sessions, otpSessions', calls')
     ELSE IF AttemptsExhausted(sessions[sid].attempts)
     THEN /\ otpSessions' = otpSessions \ {sid}
          /\ deleted' = deleted \cup {sid}
          /\ Respond(c, call, Fail(400, "Maximum attempts exceeded. Please request a new OTP."))
          /\ sessions' = Collect(sessions, otpSessions', calls')
     ELSE /\ Continue(c, [call EXCEPT !.pc = "gateway"])
          /\ UNCHANGED <<otpSessions, sessions, deleted>>
  /\ UNCHANGED <<now, users, leads>>

\* Mutant of GatewayReturn: a failure counts two attempts.
GatewayReturnCountsTwice(c, provider) ==
  LET call == calls[c]
      sid == call.sessionId
      attempts == sessions[sid].attempts + 2
  IN
  /\ call.pc = "gateway"
  /\ IF ~verifyOTP(call.otp, provider)
     THEN /\ sessions' = [sessions EXCEPT ![sid].attempts = attempts]
          /\ otpSessions' = otpSessions \cup {sid}
          /\ Respond(c, [call EXCEPT !.gatewayError = verifyError(call.otp, provider)],
                      [Fail(400, "Invalid OTP. N attempts remaining.")
                         EXCEPT !.remaining = MaxAttempts - attempts])
     ELSE /\ sessions' = [sessions EXCEPT ![sid].verified = TRUE]
          /\ Continue(c, [call EXCEPT !.pc = "findOne", !.confirmed = TRUE])
          /\ UNCHANGED otpSessions
  /\ UNCHANGED <<now, users, leads, deleted>>

\* Lines 242-259: the gateway has answered.  On failure the attempts of the
\* session object read at line 209 are incremented and the object is put
\* back under its id; on success it is marked verified and the user lookup
\* is issued.
GatewayReturn(c, provider) ==
  LET call == calls[c]
      sid == call.sessionId
      attempts == sessions[sid].attempts + 1
  IN
  /\ call.pc = "gateway"
  /\ IF ~verifyOTP(call.otp, provider)
     THEN /\ sessions' = [sessions EXCEPT ![sid].attempts = attempts]
          /\ otpSessions' = otpSessions \cup {sid}
          /\ Respond(c, [call EXCEPT !.gatewayError = verifyError(call.otp, provider)],
                      [Fail(400, "Invalid OTP. N attempts remaining.")
                         EXCEPT !.remaining = MaxAttempts - attempts])
     ELSE /\ sessions' = [sessions EXCEPT ![sid].verified = TRUE]
          /\ Continue(c, [call EXCEPT !.pc = "findOne", !.confirmed = TRUE])
          /\ UNCHANGED otpSessions
  /\ UNCHANGED <<now, users, leads, deleted>>

\* User.findOne({ phoneNumber }): the first document with that number, 0 if none.
UserFindOne(phoneNumber) ==
  LET hits == {i \in 1..Len(users) : users[i].phoneNumber = phoneNumber} IN
  IF hits = {} THEN 0 ELSE CHOOSE i \in hits : \A j \in hits : i <= j

Or(a, b) == IF a # "" THEN a ELSE b

\* Lines 259-299 up to the await of user.save(): the lookup has answered;
\* a new document is built, or the found one is updated in memory.
FindOneReturn(c) ==
  LET call == calls[c]
      session == sessions[call.sessionId]
      user == UserFindOne(session.phoneNumber)
      seen == \E i \in 1..Len(users) : users[i].phoneNumber = session.phoneNumber
  IN
  /\ call.pc = "findOne"
  /\ IF user = 0
     THEN Continue(c, [call EXCEPT !.pc = "saveUser", !.isNew = TRUE, !.sawUser = seen,
                         !.phoneNumber = session.phoneNumber, !.lastLogin = now,
                         !.userName = Or(call.name, Or(session.name, "User")),
                         !.userCity = Or(call.city, "Delhi")])
     ELSE Continue(c, [call EXCEPT !.pc = "saveUser", !.isReturning = TRUE, !.sawUser = seen,
                         !.phoneNumber = session.phoneNumber, !.lastLogin = now,
                         !.userId = user,
                         !.userName = IF call.name # "" /\ call.name # "User"
                                         /\ users[user].name # call.name
                                      THEN call.name ELSE users[user].name,
                         !.userCity = IF call.city # "" /\ users[user].city # call.city
                                      THEN call.city ELSE users[user].city])
  /\ UNCHANGED <<now, otpSessions, sessions, users, leads, deleted>>

\* Mutant of UniqueIndexAllows: the collection has no unique index.
NoUniqueIndex(phoneNumber) == TRUE

\* The unique index on phoneNumber of the User collection: an insert of a
\* second document with a stored number is rejected (duplicate key).
UniqueIndexAllows(phoneNumber) ==
  \A i \in 1..Len(users) : users[i].phoneNumber # phoneNumber

\* Lines 274 / 294, then 301-319 up to the await of lead.save(): the user
\* write has been applied.  A rejected insert throws into the catch block.
SaveUserReturn(c) ==
  LET call == calls[c]
      session == sessions[call.sessionId]
  IN
  /\ call.pc = "saveUser"
  /\ IF call.isNew
     THEN IF UniqueIndexAllows(session.phoneNumber)
          THEN /\ users' = Append(users, [phoneNumber |-> session.phoneNumber,
                                          name |-> call.userName, city |-> call.userCity,
                                          email |-> "null", lastLogin |-> call.lastLogin])
               /\ Continue(c, [call EXCEPT !.pc = "saveLead", !.userId = Len(users) + 1,
                                           !.usersCreated = @ + 1, !.lastLogin = 0])
               /\ UNCHANGED sessions
          ELSE /\ Respond(c, call, Fail(500, "Failed to verify OTP. Please try again."))
               /\ sessions' = Collect(sessions, otpSessions, calls')
               /\ UNCHANGED users
     ELSE /\ users' = [users EXCEPT ![call.userId].name = call.userName,
                                    ![call.userId].city = call.userCity,
                                    ![call.userId].lastLogin = call.lastLogin]
          /\ Continue(c, [call EXCEPT !.pc = "saveLead", !.lastLogin = 0])
          /\ UNCHANGED sessions
  /\ UNCHANGED <<now, otpSessions, leads, deleted>>

\* Mutant of NewLead: the lead is born with two notes and high priority.
NewLeadTwoNotes(call, session) ==
  [name |-> call.userName, phone |-> session.phone, email |-> "null",
   city |-> Or(call.userCity, Or(call.city, "Delhi")), source |-> "website",
   status |-> "new", priority |-> "high", notes |-> 2]

\* Lines 302-317: the Lead built for a confirmed verification; notes is the
\* number of notes it is born with.
NewLead(call, session) ==
  [name |-> call.userName, phone |-> session.phone, email |-> "null",
   city |-> Or(call.userCity, Or(call.city, "Delhi")), source |-> "website",
   status |-> "new", priority |-> "medium", notes |-> 1]

\* Lines 319-375: the lead write has been applied; the session is deleted,
\* the tokens are generated and the answer is sent.  generateToken throws
\* when the signing secret is missing (tokenOk = FALSE).
SaveLeadReturn(c, tokenOk) ==
  LET call == [calls[c] EXCEPT !.leadsCreated = @ + 1]
      sid == call.sessionId
  IN
  /\ call.pc = "saveLead"
  /\ leads' = Append(leads, NewLead(call, sessions[sid]))
  /\ otpSessions' = otpSessions \ {sid}
  /\ deleted' = deleted \cup {sid}
  /\ IF tokenOk
     THEN Respond(c, call, WelcomeAnswer(call.isNew, call.isReturning))
     ELSE Respond(c, call, Fail(500, "Failed to verify OTP. Please try again."))
  /\ sessions' = Collect(sessions, otpSessions', calls')
  /\ UNCHANGED <<now, users>>

\* Mutant of VerifyThrow: a failed lead write undoes the user insert.
VerifyThrowRollsBack(c) ==
  /\ calls[c].pc \in {"findOne", "saveUser", "saveLead"}
  /\ Respond(c, calls[c], Fail(500, "Failed to verify OTP. Please try again."))
  /\ sessions' = Collect(sessions, otpSessions, calls')
  /\ users' = IF calls[c].pc = "saveLead" /\ calls[c].usersCreated = 1
              THEN SubSeq(users, 1, Len(users) - 1) ELSE users
  /\ UNCHANGED <<now, otpSessions, leads, deleted>>

\* Lines 377-383: a database call (findOne, user.save, lead.save) rejects;
\* the catch block answers 500 and does nothing else.
VerifyThrow(c) ==
  /\ calls[c].pc \in {"findOne", "saveUser", "saveLead"}
  /\ Respond(c, calls[c], Fail(500, "Failed to verify OTP. Please try again."))
  /\ sessions' = Collect(sessions, otpSessions, calls')
  /\ UNCHANGED <<now, otpSessions, users, leads, deleted>>

\* The gateway issues at most MaxSessions ids; at most MaxInFlight
\* verify-otp requests overlap; no request arrives once MaxLeads leads are
\* stored or about to be.
Next ==
  \/ Tick /\ UNCHANGED <<sends, fmt, site>>
  \/ \E body \in SendBodies, sms \in DeliveryResults, voice \in DeliveryResults :
       /\ Len(sessions) < MaxSessions
       /\ SendOtp(body, sms, voice)
       /\ UNCHANGED <<sends, fmt, site>>
  \/ \E body \in VerifyBodies(1..Len(sessions)) :
       /\ Len(calls) < MaxInFlight
       /\ Len(leads) + Len(calls) < MaxLeads
       /\ VerifyStart(body)
       /\ UNCHANGED <<sends, fmt, site>>
  \/ \E c \in 1..Len(calls), provider \in DeliveryResults :
       GatewayReturn(c, provider) /\ UNCHANGED <<sends, fmt, site>>
  \/ \E c \in 1..Len(calls) : FindOneReturn(c) /\ UNCHANGED <<sends, fmt, site>>
  \/ \E c \in 1..Len(calls) : SaveUserReturn(c) /\ UNCHANGED <<sends, fmt, site>>
  \/ \E c \in 1..Len(calls), tokenOk \in BOOLEAN :
       SaveLeadReturn(c, tokenOk) /\ UNCHANGED <<sends, fmt, site>>
  \/ \E c \in 1..Len(calls) : VerifyThrow(c) /\ UNCHANGED <<sends, fmt, site>>

Spec == Init /\ [][Next]_vars

\* ----------------------------------------- guesses against a session
\* A caller who does not know the code: every verify-otp body carries a
\* wrong one, for a session id that was issued.
GuessBodies(issued) ==
  { [sessionId |-> sid, otp |-> "wrong", name |-> "", city |-> ""] : sid \in issued }

\* At most MaxInFlight guesses overlap.
NextGuess ==
  \/ Tick /\ UNCHANGED <<sends, fmt, site>>
  \/ \E body \in SendBodies, sms \in DeliveryResults, voice \in DeliveryResults :
       /\ Len(sessions) < MaxSessions
       /\ SendOtp(body, sms, voice)
       /\ UNCHANGED <<sends, fmt, site>>
  \/ \E body \in GuessBodies(1..Len(sessions)) :
       /\ Len(calls) < MaxInFlight
       /\ VerifyStart(body)
       /\ UNCHANGED <<sends, fmt, site>>
  \/ \E c \in 1..Len(calls), provider \in DeliveryResults :
       GatewayReturn(c, provider) /\ UNCHANGED <<sends, fmt, site>>

SpecGuess == Init /\ [][NextGuess]_vars

\* ------------------------------------------------ returning users
\* verify-otp bodies of a caller who knows the code and supplies a name
\* and a city: none, the default, or one of their own.
UpsertBodies(issued) ==
  { [sessionId |-> sid, otp |-> "right", name |-> name, city |-> city] :
      sid \in issued, name \in {"", "User", "Ravi"}, city \in {"", "Delhi", "Pune"} }

\* One verify-otp request at a time; the database calls and the token
\* generation succeed.
NextUpsert ==
  \/ Tick /\ UNCHANGED <<sends, fmt, site>>
  \/ \E body \in SendBodies, sms \in DeliveryResults, voice \in DeliveryResults :
       /\ Len(sessions) < MaxSessions
       /\ SendOtp(body, sms, voice)
       /\ UNCHANGED <<sends, fmt, site>>
  \/ \E body \in UpsertBodies(1..Len(sessions)) :
       /\ calls = <<>>
       /\ VerifyStart(body)
       /\ UNCHANGED <<sends, fmt, site>>
  \/ \E c \in 1..Len(calls), provider \in DeliveryResults :
       GatewayReturn(c, provider) /\ UNCHANGED <<sends, fmt, site>>
  \/ \E c \in 1..Len(calls) : FindOneReturn(c) /\ UNCHANGED <<sends, fmt, site>>
  \/ \E c \in 1..Len(calls) : SaveUserReturn(c) /\ UNCHANGED <<sends, fmt, site>>
  \/ \E c \in 1..Len(calls) : SaveLeadReturn(c, TRUE) /\ UNCHANGED <<sends, fmt, site>>

SpecUpsert == Init /\ [][NextUpsert]_vars

\* -------------------------------------------- send-otp, await by await
\* Lines 129-144 and sendOTP lines 33-45: the phone is checked, the two
\* forms of the number are derived and the SMS attempt is issued.
SendStart(body) ==
  LET phoneNumber == <<"+", "9", "1">> \o body.phone
      apiFormattedPhone == formatPhoneForAPI(phoneNumber)
  IN
  /\ IF InvalidPhone(body.phone)
     THEN /\ last' = SendReport(body.phone, <<>>, "none", 0,
                       Fail(400, "Please provide a valid 10-digit phone number"))
          /\ UNCHANGED sends
     ELSE /\ sends' = Append(sends,
                        [pc |-> "sms", body |-> body, phoneNumber |-> phoneNumber,
                         attempts |-> <<Attempt("sms", apiFormattedPhone, "pending")>>])
          /\ last' = NoRequest
  /\ UNCHANGED <<now, otpSessions, sessions, users, leads, calls, deleted>>

\* sendOTP lines 45-59: the SMS attempt has ended.  On success sendOTP
\* returns and the handler finishes (lines 146-178); otherwise the voice
\* attempt is issued to the same number.
SmsReturn(s, outcome) ==
  LET req == sends[s]
      to == req.attempts[1].to
      id == Len(sessions) + 1
      smsResult == sendSMSOTP(to, outcome, id)
  IN
  /\ req.pc = "sms"
  /\ IF smsResult.success
     THEN /\ SendFinish(req.body, req.phoneNumber,
                        sendOTP(req.phoneNumber, outcome, "none", id),
                        <<Attempt("sms", to, outcome)>>)
          /\ sends' = Without(sends, s)
     ELSE /\ sends' = [sends EXCEPT ![s].pc = "voice",
                                    ![s].attempts = <<Attempt("sms", to, outcome),
                                                      Attempt("voice", to, "pending")>>]
          /\ last' = NoRequest
          /\ UNCHANGED <<otpSessions, sessions, deleted>>
  /\ UNCHANGED <<now, users, leads, calls>>

\* sendOTP lines 59-78 and the handler's lines 146-185: the voice attempt
\* has ended and the handler finishes with the result of sendOTP.  The API
\* key is read from the environment by both attempts: it is missing for
\* both or for neither.
VoiceReturn(s, outcome) ==
  LET req == sends[s]
      sms == req.attempts[1].outcome
      id == Len(sessions) + 1
  IN
  /\ req.pc = "voice"
  /\ (outcome = "NoApiKey") <=> (sms = "NoApiKey")
  /\ SendFinish(req.body, req.phoneNumber, sendOTP(req.phoneNumber, sms, outcome, id),
                <<req.attempts[1], Attempt("voice", req.attempts[2].to, outcome)>>)
  /\ sends' = Without(sends, s)
  /\ UNCHANGED <<now, users, leads, calls>>

\* At most MaxInFlight send-otp requests overlap, and no request arrives
\* once MaxSessions sessions are issued or about to be.
NextSend ==
  \/ Tick /\ UNCHANGED <<sends, fmt, site>>
  \/ \E body \in SendStartBodies :
       /\ Len(sends) < MaxInFlight
       /\ Len(sessions) + Len(sends) < MaxSessions
       /\ SendStart(body)
       /\ UNCHANGED <<fmt, site>>
  \/ \E s \in 1..Len(sends), outcome \in SendOutcomes :
       SmsReturn(s, outcome) /\ UNCHANGED <<fmt, site>>
  \/ \E s \in 1..Len(sends), outcome \in SendOutcomes :
       VoiceReturn(s, outcome) /\ UNCHANGED <<fmt, site>>

SpecSend == Init /\ [][NextSend]_vars

\* ------------------------------------------------- the phone formatters
InitFormat ==
  /\ now = 0
  /\ otpSessions = {}
  /\ sessions = <<>>
  /\ users = <<>>
  /\ leads = <<>>
  /\ calls = <<>>
  /\ last = NoRequest
  /\ deleted = {}
  /\ sends = <<>>
  /\ fmt \in {[NoFormat EXCEPT !.input = p] : p \in FormatInputs}
  /\ InitSite

Others == <<now, otpSessions, sessions, users, leads, calls, last, deleted, sends, site>>

\* formatPhoneForAPI applied to the input, then to its own output.
FormatForAPI ==
  /\ fmt.apiApplied = 0
  /\ fmt' = [fmt EXCEPT !.api = formatPhoneForAPI(fmt.input), !.apiApplied = 1]
  /\ UNCHANGED Others

FormatForAPIAgain ==
  /\ fmt.apiApplied = 1
  /\ fmt' = [fmt EXCEPT !.apiAgain = formatPhoneForAPI(fmt.api), !.apiApplied = 2]
  /\ UNCHANGED Others

\* formatPhoneNumber applied to the input, then to its own output.
FormatForStorage ==
  /\ fmt.dbApplied = 0
  /\ fmt' = [fmt EXCEPT !.db = formatPhoneNumber(fmt.input), !.dbApplied = 1]
  /\ UNCHANGED Others

FormatForStorageAgain ==
  /\ fmt.dbApplied = 1
  /\ fmt' = [fmt EXCEPT !.dbAgain = formatPhoneNumber(fmt.db), !.dbApplied = 2]
  /\ UNCHANGED Others

NextFormat ==
  \/ FormatForAPI
  \/ FormatForAPIAgain
  \/ FormatForStorage
  \/ FormatForStorageAgain

SpecFormat == InitFormat /\ [][NextFormat]_vars

\* ------------------------------------------------------------- cookies
\* A cookie set without a domain belongs to the host that set it; the other
\* domain is the one the routes of userRoutes.js name in production.
HostOnly == "host-only"
ProductionDomain == ".13.233.123.52"

\* The client tells cookies apart by name and domain (the path is "/" in
\* every cookie of these routes).
Cookie(name, domain, value) == [name |-> name, domain |-> domain, value |-> value]

\* res.cookie: the cookie replaces the one of the same name and domain.
SetCookie(held, c) ==
  {h \in held : ~(h.name = c.name /\ h.domain = c.domain)} \cup {c}

\* res.clearCookie: the client drops the cookie of
\* that name and domain, and no other.
ClearCookie(held, name, domain) ==
  {h \in held : ~(h.name = name /\ h.domain = domain)}

\* The signed credentials: what they are for and whose they are.
Token(type, id) == [type |-> type, id |-> id]

\* usersRoutes.js lines 326-352: the four cookies of a successful
\* verify-otp, all without a domain.
VerifyCookies(held, id) ==
  LET c1 == SetCookie(held, Cookie("urbanesta_token", HostOnly, Token("access", id)))
      c2 == SetCookie(c1, Cookie("token", HostOnly, Token("access", id)))
      c3 == SetCookie(c2, Cookie("refreshToken", HostOnly, Token("refresh", id)))
  IN SetCookie(c3, Cookie("userId", HostOnly, Token("id", id)))

\* userRoutes.js lines 53 and 81 / 89: the domain option of the cookies of
\* refresh-token and logout.
CookieDomain(prod) == IF prod THEN ProductionDomain ELSE HostOnly

FlowVars == <<now, otpSessions, sessions, users, leads, calls, last, deleted, sends, fmt>>
StoreVars == <<properties, myProperties, watchlist, reqs>>

\* userRoutes.js lines 73-95: logout clears two cookies and answers.
Logout ==
  /\ jar' = ClearCookie(ClearCookie(jar, "urbanesta_token", CookieDomain(production)),
                        "urbanesta_refresh_token", CookieDomain(production))
  /\ reply' = [NoReply EXCEPT !.route = "logout", !.status = 200, !.held = jar]
  /\ UNCHANGED <<FlowVars, StoreVars, production>>

\* userRoutes.js lines 12-70: refresh-token reads the cookie
\* urbanesta_refresh_token, checks the token and the user, and sets a new
\* access-token cookie.
RefreshToken ==
  LET sent == {h \in jar : h.name = "urbanesta_refresh_token"}
      refused(error) == /\ reply' = [NoReply EXCEPT !.route = "refresh-token", !.status = 401,
                                                   !.error = error, !.held = jar]
                        /\ jar' = jar
  IN
  /\ IF sent = {}
     THEN refused("Refresh token not found")
     ELSE \E h \in sent :
            IF h.value.type # "refresh"
            THEN refused("Invalid refresh token")
            ELSE IF h.value.id \notin 1..Len(users)
            THEN refused("User not found")
            ELSE /\ jar' = SetCookie(jar, Cookie("urbanesta_token", CookieDomain(production),
                                                 Token("access", h.value.id)))
                 /\ reply' = [NoReply EXCEPT !.route = "refresh-token", !.status = 200,
                                             !.user = h.value.id, !.held = jar]
  /\ UNCHANGED <<FlowVars, StoreVars, production>>

\* A step of the OTP flow as the client of the cookie routes sees it: the
\* jar changes only with the cookies of a successful verify-otp.
FlowStep ==
  /\ reply' = NoReply
  /\ UNCHANGED <<sends, fmt, StoreVars, production>>

\* The process runs in production or not.
InitCookies ==
  /\ now = 0
  /\ otpSessions = {}
  /\ sessions = <<>>
  /\ users = <<>>
  /\ leads = <<>>
  /\ calls = <<>>
  /\ last = NoRequest
  /\ deleted = {}
  /\ sends = <<>>
  /\ fmt = NoFormat
  /\ production \in BOOLEAN
  /\ jar = {}
  /\ properties = [p \in PropertyIds |-> 0]
  /\ myProperties = [u \in UserIds |-> <<>>]
  /\ watchlist = [u \in UserIds |-> <<>>]
  /\ reqs = <<>>
  /\ reply = NoReply

\* One client: one verify-otp request at a time, then logout or
\* refresh-token at any moment.
NextCookies ==
  \/ \E body \in SendBodies, sms \in DeliveryResults, voice \in DeliveryResults :
       /\ Len(sessions) < MaxSessions
       /\ SendOtp(body, sms, voice)
       /\ FlowStep /\ jar' = jar
  \/ \E body \in VerifyBodies(1..Len(sessions)) :
       /\ calls = <<>>
       /\ VerifyStart(body)
       /\ FlowStep /\ jar' = jar
  \/ \E c \in 1..Len(calls), provider \in DeliveryResults :
       GatewayReturn(c, provider) /\ FlowStep /\ jar' = jar
  \/ \E c \in 1..Len(calls) : FindOneReturn(c) /\ FlowStep /\ jar' = jar
  \/ \E c \in 1..Len(calls) : SaveUserReturn(c) /\ FlowStep /\ jar' = jar
  \/ \E c \in 1..Len(calls), tokenOk \in BOOLEAN :
       /\ SaveLeadReturn(c, tokenOk)
       /\ FlowStep
       /\ jar' = IF tokenOk THEN VerifyCookies(jar, calls[c].userId) ELSE jar
  \/ Logout
  \/ RefreshToken

SpecCookies == InitCookies /\ [][NextCookies]_vars

\* ----------------------------------------------------- property deletes
\* authenticateJWT: a request without a valid token is answered 401 and the
\* handler does not run; otherwise req.user.id is the caller's id.
authenticateJWT(caller) == caller # 0

\* What a step of a property or watchlist route reports: who called, for
\* which property, and the answer if the step sent one (status 0: none yet).
Step(route, caller, propertyId) ==
  [NoReply EXCEPT !.route = route, !.caller = caller, !.propertyId = propertyId]
Reply(route, caller, propertyId, status, error) ==
  [Step(route, caller, propertyId) EXCEPT !.status = status, !.error = error]

\* array.filter(id => id.toString() !== propertyId)
RECURSIVE FilterOut(_, _)
FilterOut(array, propertyId) ==
  IF array = <<>> THEN <<>>
  ELSE IF Head(array) = propertyId THEN FilterOut(Tail(array), propertyId)
       ELSE <<Head(array)>> \o FilterOut(Tail(array), propertyId)

\* A request in flight: its route, caller and property, where it stands,
\* and the array it holds for the write to come.
Request(route, caller, propertyId, pc) ==
  [route |-> route, caller |-> caller, propertyId |-> propertyId, pc |-> pc,
   array |-> <<>>]

DeleteFrame == UNCHANGED <<FlowVars, production, jar, watchlist>>

\* userRoutes.js lines 402-411: DELETE /properties/:propertyId arrives; the
\* middleware lets it through and the ownership lookup is issued.
DeleteOwnStart(caller, propertyId) ==
  /\ IF ~authenticateJWT(caller)
     THEN /\ reply' = Reply("delete-own", caller, propertyId, 401, "Unauthorized")
          /\ UNCHANGED reqs
     ELSE /\ reqs' = Append(reqs, Request("delete-own", caller, propertyId, "findOne"))
          /\ reply' = Step("delete-own", caller, propertyId)
  /\ UNCHANGED <<properties, myProperties>>
  /\ DeleteFrame

\* Lines 406-420: Managedproperty.findOne({ _id, createdBy: req.user.id })
\* has answered; without a match 404, otherwise the delete is issued.
DeleteOwnFound(r) ==
  LET req == reqs[r] IN
  /\ req.route = "delete-own" /\ req.pc = "findOne"
  /\ IF properties[req.propertyId] = req.caller
     THEN /\ reqs' = [reqs EXCEPT ![r].pc = "delete"]
          /\ reply' = Step("delete-own", req.caller, req.propertyId)
     ELSE /\ reqs' = Without(reqs, r)
          /\ reply' = Reply("delete-own", req.caller, req.propertyId, 404,
                            "Property not found or you do not have permission to delete it")
  /\ UNCHANGED <<properties, myProperties>>
  /\ DeleteFrame

\* Lines 420-423: findByIdAndDelete has been applied; the user is looked up.
DeleteOwnDeleted(r) ==
  LET req == reqs[r] IN
  /\ req.route = "delete-own" /\ req.pc = "delete"
  /\ properties' = [properties EXCEPT ![req.propertyId] = 0]
  /\ reqs' = [reqs EXCEPT ![r].pc = "findUser"]
  /\ reply' = Step("delete-own", req.caller, req.propertyId)
  /\ UNCHANGED myProperties
  /\ DeleteFrame

\* Lines 423-426: the user has been read; the property is filtered out of
\* myProperties and the save is issued.  Without a user document the
\* answer is sent at once (lines 428-436).
DeleteOwnUserRead(r) ==
  LET req == reqs[r] IN
  /\ req.route = "delete-own" /\ req.pc = "findUser"
  /\ IF req.caller \in UserIds
     THEN /\ reqs' = [reqs EXCEPT ![r].pc = "save",
                                  ![r].array = FilterOut(myProperties[req.caller],
                                                         req.propertyId)]
          /\ reply' = Step("delete-own", req.caller, req.propertyId)
     ELSE /\ reqs' = Without(reqs, r)
          /\ reply' = Reply("delete-own", req.caller, req.propertyId, 200, "none")
  /\ UNCHANGED <<properties, myProperties>>
  /\ DeleteFrame

\* Lines 426-436: user.save() has written the assigned array; the answer.
DeleteOwnSaved(r) ==
  LET req == reqs[r] IN
  /\ req.route = "delete-own" /\ req.pc = "save"
  /\ myProperties' = [myProperties EXCEPT ![req.caller] = req.array]
  /\ reqs' = Without(reqs, r)
  /\ reply' = Reply("delete-own", req.caller, req.propertyId, 200, "none")
  /\ UNCHANGED properties
  /\ DeleteFrame

\* part_003 lines 430-453: DELETE /api/properties/:id has no middleware;
\* findByIdAndDelete removes the property, or finds none (404).
DeleteById(caller, propertyId) ==
  /\ IF properties[propertyId] = 0
     THEN /\ reply' = Reply("delete-by-id", caller, propertyId, 404, "Property not found")
          /\ UNCHANGED properties
     ELSE /\ properties' = [properties EXCEPT ![propertyId] = 0]
          /\ reply' = Reply("delete-by-id", caller, propertyId, 200, "none")
  /\ UNCHANGED <<reqs, myProperties>>
  /\ DeleteFrame

\* The ids created by user u, in the order of their creation (part_003
\* lines 335-346: createdBy is set and the id is pushed to myProperties).
RECURSIVE CreatedBy(_, _, _)
CreatedBy(created, u, from) ==
  IF from \notin PropertyIds THEN <<>>
  ELSE IF created[from] = u THEN <<from>> \o CreatedBy(created, u, from + 1)
       ELSE CreatedBy(created, u, from + 1)

\* Every property has been created by one of the users.
InitDelete ==
  /\ now = 0
  /\ otpSessions = {}
  /\ sessions = <<>>
  /\ users = <<>>
  /\ leads = <<>>
  /\ calls = <<>>
  /\ last = NoRequest
  /\ deleted = {}
  /\ sends = <<>>
  /\ fmt = NoFormat
  /\ production = FALSE
  /\ jar = {}
  /\ properties \in [PropertyIds -> UserIds]
  /\ myProperties = [u \in UserIds |-> CreatedBy(properties, u, 1)]
  /\ watchlist = [u \in UserIds |-> <<>>]
  /\ reqs = <<>>
  /\ reply = NoReply

\* At most MaxReqs requests of the owner's route overlap.
NextDelete ==
  \/ \E caller \in Callers, propertyId \in PropertyIds :
       Len(reqs) < MaxReqs /\ DeleteOwnStart(caller, propertyId)
  \/ \E r \in 1..Len(reqs) : DeleteOwnFound(r)
  \/ \E r \in 1..Len(reqs) : DeleteOwnDeleted(r)
  \/ \E r \in 1..Len(reqs) : DeleteOwnUserRead(r)
  \/ \E r \in 1..Len(reqs) : DeleteOwnSaved(r)
  \/ \E caller \in Callers, propertyId \in PropertyIds : DeleteById(caller, propertyId)

SpecDelete == InitDelete /\ [][NextDelete]_vars

\* ------------------------------------------------------------ watchlist
\* array.includes(propertyId)
Includes(array, propertyId) == \E i \in 1..Len(array) : array[i] = propertyId

\* $pull: every occurrence of the value leaves the array.
Pull(array, propertyId) == FilterOut(array, propertyId)

\* $addToSet: the value is appended unless the array holds it.
AddToSet(array, propertyId) ==
  IF Includes(array, propertyId) THEN array ELSE Append(array, propertyId)

WatchFrame == UNCHANGED <<FlowVars, production, jar, properties, myProperties>>

\* userRoutes.js lines 294-306: POST /watchlist arrives; the middleware
\* lets it through, the body is checked and the user lookup is issued.
\* propertyId 0 is a body without propertyId.
WatchAddStart(caller, propertyId) ==
  /\ IF ~authenticateJWT(caller)
     THEN /\ reply' = Reply("watch-add", caller, propertyId, 401, "Unauthorized")
          /\ UNCHANGED reqs
     ELSE IF propertyId = 0
     THEN /\ reply' = Reply("watch-add", caller, propertyId, 400, "Property ID is required")
          /\ UNCHANGED reqs
     ELSE /\ reqs' = Append(reqs, Request("watch-add", caller, propertyId, "findUser"))
          /\ reply' = Step("watch-add", caller, propertyId)
  /\ UNCHANGED watchlist
  /\ WatchFrame

\* Lines 306-319: the user has been read.  Without a document 404; if the
\* array read holds the property the answer is sent without a write;
\* otherwise the property is pushed to the array read and user.save() is
\* issued.
WatchAddUserRead(r) ==
  LET req == reqs[r] IN
  /\ req.route = "watch-add" /\ req.pc = "findUser"
  /\ IF req.caller \notin UserIds
     THEN /\ reqs' = Without(reqs, r)
          /\ reply' = Reply("watch-add", req.caller, req.propertyId, 404, "User not found")
     ELSE IF Includes(watchlist[req.caller], req.propertyId)
     THEN /\ reqs' = Without(reqs, r)
          /\ reply' = Reply("watch-add", req.caller, req.propertyId, 200, "none")
     ELSE /\ reqs' = [reqs EXCEPT ![r].pc = "save",
                                  ![r].array = Append(watchlist[req.caller], req.propertyId)]
          /\ reply' = Step("watch-add", req.caller, req.propertyId)
  /\ UNCHANGED watchlist
  /\ WatchFrame

\* Lines 318-329: user.save() has been applied.  The document was changed
\* by a push, and the write of a pushed array is the push itself ($push of
\* the new element onto the stored array), not the array the request read.
WatchAddSaved(r) ==
  LET req == reqs[r] IN
  /\ req.route = "watch-add" /\ req.pc = "save"
  /\ watchlist' = [watchlist EXCEPT ![req.caller] = Append(@, req.propertyId)]
  /\ reqs' = Without(reqs, r)
  /\ reply' = Reply("watch-add", req.caller, req.propertyId, 200, "none")
  /\ WatchFrame

\* Lines 340-345: DELETE /watchlist/:propertyId arrives; the user lookup
\* is issued.
WatchRemoveStart(caller, propertyId) ==
  /\ IF ~authenticateJWT(caller)
     THEN /\ reply' = Reply("watch-remove", caller, propertyId, 401, "Unauthorized")
          /\ UNCHANGED reqs
     ELSE /\ reqs' = Append(reqs, Request("watch-remove", caller, propertyId, "findUser"))
          /\ reply' = Step("watch-remove", caller, propertyId)
  /\ UNCHANGED watchlist
  /\ WatchFrame

\* Lines 345-356: the user has been read; the filtered array is assigned
\* and user.save() is issued.
WatchRemoveUserRead(r) ==
  LET req == reqs[r] IN
  /\ req.route = "watch-remove" /\ req.pc = "findUser"
  /\ IF req.caller \notin UserIds
     THEN /\ reqs' = Without(reqs, r)
          /\ reply' = Reply("watch-remove", req.caller, req.propertyId, 404, "User not found")
     ELSE /\ reqs' = [reqs EXCEPT ![r].pc = "save",
                                  ![r].array = FilterOut(watchlist[req.caller],
                                                         req.propertyId)]
          /\ reply' = Step("watch-remove", req.caller, req.propertyId)
  /\ UNCHANGED watchlist
  /\ WatchFrame

\* Lines 356-367: user.save() has written the assigned array; the answer.
WatchRemoveSaved(r) ==
  LET req == reqs[r] IN
  /\ req.route = "watch-remove" /\ req.pc = "save"
  /\ watchlist' = [watchlist EXCEPT ![req.caller] = req.array]
  /\ reqs' = Without(reqs, r)
  /\ reply' = Reply("watch-remove", req.caller, req.propertyId, 200, "none")
  /\ WatchFrame

\* usersRoutes.js lines 77-91: POST /:id/watchlist, one findByIdAndUpdate
\* with $addToSet; no middleware, the user is the one of the path.
WatchAddToSet(id, propertyId) ==
  /\ IF id \notin UserIds
     THEN /\ reply' = [Reply("watch-addToSet", 0, propertyId, 404, "User not found")
                         EXCEPT !.user = id]
          /\ UNCHANGED watchlist
     ELSE /\ watchlist' = [watchlist EXCEPT ![id] = AddToSet(@, propertyId)]
          /\ reply' = [Reply("watch-addToSet", 0, propertyId, 200, "none")
                         EXCEPT !.user = id]
  /\ UNCHANGED reqs
  /\ WatchFrame

\* usersRoutes.js lines 96-110: DELETE /:id/watchlist/:propertyId, one
\* findByIdAndUpdate with $pull.
WatchPull(id, propertyId) ==
  /\ IF id \notin UserIds
     THEN /\ reply' = [Reply("watch-pull", 0, propertyId, 404, "User not found")
                         EXCEPT !.user = id]
          /\ UNCHANGED watchlist
     ELSE /\ watchlist' = [watchlist EXCEPT ![id] = Pull(@, propertyId)]
          /\ reply' = [Reply("watch-pull", 0, propertyId, 200, "none")
                         EXCEPT !.user = id]
  /\ UNCHANGED reqs
  /\ WatchFrame

\* The callers of the watchlist routes: no token, the user whose watchlist
\* is watched, and a token without a user document.
Watcher == CHOOSE u \in UserIds : \A v \in UserIds : u <= v
WatchCallers == {0, Watcher, Stranger}

\* At most MaxReqs requests of the authenticated routes overlap; the write
\* of an add waits while the watchlist holds MaxWatch entries.
NextWatchlist ==
  \/ \E caller \in WatchCallers, propertyId \in PropertyIds \cup {0} :
       Len(reqs) < MaxReqs /\ WatchAddStart(caller, propertyId)
  \/ \E r \in 1..Len(reqs) : WatchAddUserRead(r)
  \/ \E r \in 1..Len(reqs) :
       Len(watchlist[Watcher]) < MaxWatch /\ WatchAddSaved(r)
  \/ \E caller \in WatchCallers, propertyId \in PropertyIds :
       Len(reqs) < MaxReqs /\ WatchRemoveStart(caller, propertyId)
  \/ \E r \in 1..Len(reqs) : WatchRemoveUserRead(r)
  \/ \E r \in 1..Len(reqs) : WatchRemoveSaved(r)
  \/ \E id \in {Watcher, Stranger}, propertyId \in PropertyIds :
       Len(watchlist[Watcher]) < MaxWatch /\ WatchAddToSet(id, propertyId)
  \/ \E id \in {Watcher, Stranger}, propertyId \in PropertyIds :
       WatchPull(id, propertyId)

SpecWatchlist == Init /\ [][NextWatchlist]_vars

\* ======================================================================
\* Observations of a step, used by the properties below.
\* ======================================================================
MsgAbsent == "Session expired or invalid. Please request a new OTP."
MsgExpired == "Session has expired. Please request a new OTP."
MsgMaxAttempts == "Maximum attempts exceeded. Please request a new OTP."
MsgInvalidOtp == "Invalid OTP. N attempts remaining."

Stored(sid) == sid \in otpSessions
Age(sid) == now - sessions[sid].createdAt
VerifyAnswered == last.kind = "verify"
Succeeded == VerifyAnswered /\ last.resp.status = 200
UsersOf(phoneNumber) == {i \in 1..Len(users) : users[i].phoneNumber = phoneNumber}

\* This step is the arrival of a verify-otp request with both fields set,
\* for session id sid: it is answered at once, or it goes to the gateway.
ArrivesAndAnswered(sid) ==
  /\ calls' = calls
  /\ last'.kind = "verify" /\ last'.sessionId = sid /\ last'.otp # ""
ArrivesAndCallsGateway(sid) ==
  /\ Len(calls') = Len(calls) + 1
  /\ calls'[Len(calls')].sessionId = sid
Arrives(sid) == ArrivesAndAnswered(sid) \/ ArrivesAndCallsGateway(sid)

\* This step is the gateway's failure answer to request c in flight.
GatewayFails(c) ==
  /\ calls[c].pc = "gateway"
  /\ calls' = Without(calls, c)
  /\ last'.kind = "verify" /\ last'.sessionId = calls[c].sessionId

\* This step is the gateway's confirmation of the code of request c.
GatewayConfirms(c) ==
  /\ calls[c].pc = "gateway"
  /\ Len(calls') = Len(calls)
  /\ calls'[c].pc = "findOne"

\* ----------------------------------------------------------------- C1
\* C1 (as claimed): once the third failed verify of a session has been
\* answered, the session is absent from the store and that answer carries
\* the maximum-attempts message.
C1ThirdFailureDeletes ==
  \A sid \in DOMAIN sessions :
    ( /\ VerifyAnswered /\ last.sessionId = sid /\ last.otp = "wrong"
      /\ last.resp.message \in {MsgInvalidOtp, MsgMaxAttempts}
      /\ sessions[sid].attempts = MaxAttempts )
    => (~Stored(sid) /\ last.resp.message = MsgMaxAttempts)

\* C1 (amended): the failure that brings attempts to 3 is answered
\* "Invalid OTP. 0 attempts remaining." and leaves the session stored with
\* attempts = 3; a request arriving for a stored, unexpired session with
\* attempts >= 3 (the fourth one) is answered "Maximum attempts exceeded"
\* and deletes the session.
C1FourthCallDeletes ==
  [][ /\ \A c \in 1..Len(calls) :
           (GatewayFails(c) /\ sessions[calls[c].sessionId].attempts = MaxAttempts - 1)
           => /\ last'.resp.message = MsgInvalidOtp
              /\ last'.resp.remaining = 0
              /\ calls[c].sessionId \in otpSessions'
              /\ sessions'[calls[c].sessionId].attempts = MaxAttempts
      /\ \A sid \in otpSessions :
           (Arrives(sid) /\ Age(sid) <= TenMinutes /\ sessions[sid].attempts >= MaxAttempts)
           => /\ ArrivesAndAnswered(sid)
              /\ last'.resp.message = MsgMaxAttempts
              /\ sid \notin otpSessions'
    ]_vars

\* Three failures in a row have been answered and the session is still stored.
C1Witness ==
  /\ VerifyAnswered /\ last.resp.message = MsgInvalidOtp /\ last.resp.remaining = 0
  /\ Stored(last.sessionId) /\ sessions[last.sessionId].attempts = MaxAttempts

\* ----------------------------------------------------------------- C2
\* C2: when a verify-otp request whose code the gateway confirmed has been
\* answered (200 or 500), its session is absent from the store.
C2SessionSingleUse ==
  (VerifyAnswered /\ last.confirmed) => ~Stored(last.sessionId)

\* ----------------------------------------------------------------- C3
\* C3: a session is marked verified at most once: the gateway's confirmation
\* sends a request on to the identity upsert only for a session that no
\* earlier request has marked verified.
C3VerifiedOnce ==
  [][ \A c \in 1..Len(calls) :
        GatewayConfirms(c) => ~sessions[calls[c].sessionId].verified ]_vars

\* ----------------------------------------------------------------- C4
\* C4: the attempts counter of every stored session is in 0..3, and the
\* reported remaining-attempts number is never negative.
C4AttemptsInRange ==
  /\ \A sid \in otpSessions : sessions[sid].attempts \in 0..MaxAttempts
  /\ last.resp.remaining >= 0

C6UsableOnly ==
  [][ \A sid \in DOMAIN sessions :
        ArrivesAndCallsGateway(sid)
        => /\ sid \in otpSessions
           /\ Age(sid) < TenMinutes
           /\ sessions[sid].attempts < MaxAttempts
           /\ ~sessions[sid].verified ]_vars

\* ----------------------------------------------------------------- C7
\* C7: at most one user document exists for any phone number.
C7UniquePhone ==
  \A i, j \in 1..Len(users) :
    users[i].phoneNumber = users[j].phoneNumber => i = j

\* Two requests of two sessions for one unknown number both found no user;
\* one has inserted its document, the other is about to save its own.
C7Witness ==
  \E c \in 1..Len(calls) :
    /\ calls[c].pc = "saveUser" /\ calls[c].isNew
    /\ UsersOf(sessions[calls[c].sessionId].phoneNumber) # {}

C9ReturningVerification ==
  (Succeeded /\ last.sawUser)
  => /\ ~last.resp.isNew /\ last.resp.isReturning
     /\ last.usersCreated = 0 /\ last.leadsCreated = 1
     /\ Cardinality(UsersOf(last.phoneNumber)) = 1

\* The second success for the number, through the second session.
C9Witness ==
  /\ Succeeded /\ last.sawUser /\ last.sessionId = 2
  /\ Len(users) = 1 /\ Len(leads) = 2

\* ---------------------------------------------------------------- C10
\* C10: a verify-otp request that arrives for a session id already deleted
\* from the store is answered with one of the expired/invalid answers,
\* never with anything else (in particular never with a success).
C10DeletedStaysDeleted ==
  (VerifyAnswered /\ last.afterDelete /\ last.otp # "")
  => last.resp.message \in {MsgAbsent, MsgExpired}

\* ======================================================================
\* send-otp (SpecSend)
\* ======================================================================
CountryCode == <<"9", "1">>
Plus == <<"+">>
TenDigits(phone) ==
  Len(phone) = PhoneLength /\ \A i \in 1..Len(phone) : phone[i] \in Digits
SendAnswered == last.kind = "send"
Delivered == SendAnswered /\ last.resp.status = 200
DeliveryFailed ==
  /\ SendAnswered /\ Len(last.attempts) = 2
  /\ last.attempts[1].outcome # "Success" /\ last.attempts[2].outcome # "Success"

\* ---------------------------------------------------------------- C11
\* C11: a send-otp request whose phone is not a string of exactly ten
\* decimal digits is answered 400, no delivery attempt is made for it and no
\* session is created for it.
C11RejectsNonDigits ==
  /\ \A s \in 1..Len(sends) : TenDigits(sends[s].body.phone)
  /\ (SendAnswered /\ ~TenDigits(last.phone))
     => /\ last.resp.status = 400
        /\ last.attempts = <<>>
        /\ last.sessionId = 0

\* ---------------------------------------------------------------- C12
\* C12: a send-otp request that fails leaves the session store as it was:
\* the step that answers a validation failure (400) or a double delivery
\* failure (500), and every step a request takes before its answer, neither
\* adds, changes nor removes a session; the answer to a double delivery
\* failure carries the SMS error and the voice error of that request.
C12FailureLeavesStore ==
  [][ /\ (last'.kind # "send" \/ last'.resp.status # 200)
         => UNCHANGED <<otpSessions, sessions, deleted>>
      /\ \A s \in 1..Len(sends) :
           (sends[s].pc = "voice" /\ sends' = Without(sends, s)
              /\ last'.kind = "send" /\ last'.attempts[2].outcome # "Success")
           => /\ last'.resp.status = 500
              /\ last'.phone = sends[s].body.phone
              /\ last'.resp.smsError = sends[s].attempts[1].outcome
              /\ last'.resp.voiceError = last'.attempts[2].outcome
              /\ last'.sessionId = 0
              /\ UNCHANGED <<otpSessions, sessions, deleted>>
      /\ (last'.kind = "send" /\ last'.attempts = <<>>)
         => /\ last'.resp.status = 400
            /\ UNCHANGED <<otpSessions, sessions, deleted, sends>>
    ]_vars

\* Both attempts of a request have failed, for two different reasons, while
\* a session older than ten minutes is stored: it is still there.
C12Witness ==
  /\ DeliveryFailed /\ last.resp.status = 500
  /\ last.resp.smsError # last.resp.voiceError
  /\ \E sid \in otpSessions : Expired(sessions[sid].createdAt, now)

\* ---------------------------------------------------------------- C13
\* C13: sendOTP attempts SMS first; the voice attempt is made once, only
\* after the SMS attempt failed (whatever the failure: non-success status,
\* network error, malformed answer, missing key) and to the same number; the
\* result is a success with channel sms or voice and the session id issued
\* to the attempt that succeeded, and a failure only when both attempts
\* failed, its error naming the reason of each.
C13SmsThenVoice ==
  /\ \A s \in 1..Len(sends) :
       LET a == sends[s].attempts IN
       /\ a[1].channel = "sms"
       /\ a[1].to = formatPhoneForAPI(sends[s].phoneNumber)
       /\ sends[s].pc = "sms" => Len(a) = 1
       /\ sends[s].pc = "voice"
          => /\ Len(a) = 2
             /\ a[1].outcome \in SendOutcomes \ {"Success"}
             /\ a[2].channel = "voice" /\ a[2].to = a[1].to
  /\ (SendAnswered /\ last.attempts # <<>>)
     => LET a == last.attempts IN
        /\ a[1].channel = "sms"
        /\ Len(a) = 1
           => /\ a[1].outcome = "Success"
              /\ last.resp.status = 200 /\ last.channel = "sms"
        /\ Len(a) # 1
           => /\ Len(a) = 2
              /\ a[1].outcome \in SendOutcomes \ {"Success"}
              /\ a[2].channel = "voice" /\ a[2].to = a[1].to
              /\ a[2].outcome = "Success"
                 => last.resp.status = 200 /\ last.channel = "voice"
              /\ a[2].outcome # "Success"
                 => /\ last.resp.status = 500 /\ last.channel = "none"
                    /\ last.resp.smsError = a[1].outcome
                    /\ last.resp.voiceError = a[2].outcome
        /\ last.resp.status = 200
           => /\ last.sessionId = Len(sessions)
              /\ last.sessionId \in otpSessions

\* The SMS attempt got a malformed answer and the voice attempt succeeded.
C13Witness ==
  /\ Delivered /\ last.channel = "voice" /\ Len(last.attempts) = 2
  /\ last.attempts[1].outcome = "Malformed"

\* ======================================================================
\* verify-otp: failures and credentials (Spec)
\* ======================================================================
\* ---------------------------------------------------------------- C14
\* C14: verify-otp reports the kinds of gateway failure apart: a call to the
\* gateway that itself failed (network error, timeout, missing or malformed
\* API key) is answered with a 500-class status, and only a code the gateway
\* rejected is answered 400 "Invalid OTP" with the remaining attempts.
C14FailureKindsApart ==
  (VerifyAnswered /\ last.gatewayError # "none")
  => /\ last.gatewayError = "OTP Mismatch"
        => last.resp.status = 400 /\ last.resp.message = MsgInvalidOtp
     /\ last.gatewayError = "Request failed"
        => last.resp.status >= 500 /\ last.resp.message # MsgInvalidOtp

\* ---------------------------------------------------------------- C15
\* C15: when the lead write of a verify-otp request fails, the step that
\* answers the failure changes no user document, and the user the request
\* created or updated is stored with the phone number, name and city the
\* request wrote.
C15LeadFailureKeepsUser ==
  [][ \A c \in 1..Len(calls) :
        ( /\ calls[c].pc = "saveLead" /\ calls' = Without(calls, c)
          /\ last'.kind = "verify" /\ last'.leadsCreated = 0 )
        => /\ users' = users
           /\ calls[c].userId \in 1..Len(users')
           /\ users'[calls[c].userId].phoneNumber = calls[c].phoneNumber
           /\ users'[calls[c].userId].name = calls[c].userName
           /\ users'[calls[c].userId].city = calls[c].userCity
           /\ last'.resp.status = 500
    ]_vars

\* The lead write of the request that created the user has failed: the user
\* is stored and no lead is.
C15Witness ==
  /\ VerifyAnswered /\ last.resp.status = 500
  /\ last.usersCreated = 1 /\ last.leadsCreated = 0
  /\ UsersOf(last.phoneNumber) # {} /\ leads = <<>>

\* ---------------------------------------------------------------- C16
\* C16: verify-otp hands out credentials only on success.  A request reaches
\* the gateway only for a session that is stored, not older than ten minutes
\* and has fewer than three attempts when it arrives; the gateway confirms
\* only the right code; an answer carries the tokens or sets the cookies only
\* if it is the 200 answer of a request whose code the gateway confirmed and
\* whose user and lead are stored; every other answer carries neither.
C16CredentialsOnlyOnSuccess ==
  [][ /\ \A sid \in DOMAIN sessions :
           ArrivesAndCallsGateway(sid)
           => /\ sid \in otpSessions
              /\ Age(sid) <= TenMinutes
              /\ sessions[sid].attempts < MaxAttempts
      /\ \A c \in 1..Len(calls) : GatewayConfirms(c) => calls[c].otp = "right"
      /\ last'.kind = "verify"
         => /\ (last'.resp.token \/ last'.resp.cookies)
               => /\ last'.resp.status = 200
                  /\ last'.resp.token /\ last'.resp.cookies
                  /\ last'.confirmed
                  /\ last'.leadsCreated = 1 /\ Len(leads') = Len(leads) + 1
                  /\ \E i \in 1..Len(users') :
                       users'[i].phoneNumber = last'.phoneNumber
            /\ last'.resp.status # 200
               => ~last'.resp.token /\ ~last'.resp.cookies
    ]_vars

\* A success answer with tokens and cookies has been sent.
C16Witness ==
  /\ Succeeded /\ last.resp.token /\ last.resp.cookies
  /\ last.confirmed /\ last.leadsCreated = 1

\* ======================================================================
\* The phone formatters (SpecFormat)
\* ======================================================================
\* ---------------------------------------------------------------- C17
\* C17: for every string of exactly ten digits, those beginning with 91
\* included, formatPhoneForAPI gives 91 followed by the ten digits and
\* formatPhoneNumber gives +91 followed by the ten digits.
C17TenDigitsPrefixed ==
  TenDigits(fmt.input)
  => /\ fmt.apiApplied >= 1 => fmt.api = CountryCode \o fmt.input
     /\ fmt.dbApplied >= 1 => fmt.db = Plus \o CountryCode \o fmt.input

\* ---------------------------------------------------------------- C18
\* C18: a number that already has a leading "+" or the country code goes
\* through unchanged: formatPhoneNumber returns an input beginning with "+"
\* as it is, and for an input of 91 followed by ten digits formatPhoneForAPI
\* returns the input and formatPhoneNumber the input with "+" in front.
C18PassThrough ==
  /\ (StartsWith(fmt.input, Plus) /\ fmt.dbApplied >= 1) => fmt.db = fmt.input
  /\ (StartsWith(fmt.input, CountryCode) /\ TenDigits(SubSeq(fmt.input, 3, Len(fmt.input))))
     => /\ fmt.apiApplied >= 1 => fmt.api = fmt.input
        /\ fmt.dbApplied >= 1 => fmt.db = Plus \o fmt.input

\* ---------------------------------------------------------------- C19
\* C19: for every string of exactly ten digits, each formatter applied to
\* its own output gives that output again.
C19Idempotent ==
  TenDigits(fmt.input)
  => /\ fmt.apiApplied = 2 => fmt.apiAgain = fmt.api
     /\ fmt.dbApplied = 2 => fmt.dbAgain = fmt.db

\* Both formatters have been applied twice to ten digits that begin with 91:
\* the outputs carry one 91, not two.
C19Witness ==
  /\ TenDigits(fmt.input) /\ StartsWith(fmt.input, CountryCode)
  /\ fmt.apiApplied = 2 /\ fmt.dbApplied = 2
  /\ fmt.apiAgain = fmt.input /\ fmt.dbAgain = Plus \o fmt.input

\* ======================================================================
\* send-otp: the session of a success (SpecSend)
\* ======================================================================
\* ---------------------------------------------------------------- C20
\* C20: the step that answers a send-otp request for a ten-digit phone with
\* success stores exactly one new session: the keys of the store become the
\* old keys without those of sessions older than ten minutes, plus the id
\* the gateway issued, which was no key before and is the id answered; the
\* new session has attempts = 0, verified = false, createdAt = now and the
\* phone of the request, raw and with +91 in front; no other session changes.
C20OneSessionPerSend ==
  [][ (last'.kind = "send" /\ last'.resp.status = 200 /\ TenDigits(last'.phone))
      => LET sid == last'.sessionId
             old == {id \in otpSessions : Age(id) > TenMinutes}
         IN
         /\ sid \notin otpSessions /\ sid \notin deleted
         /\ otpSessions' = (otpSessions \ old) \cup {sid}
         /\ Cardinality(otpSessions') = Cardinality(otpSessions) - Cardinality(old) + 1
         /\ sessions'[sid].attempts = 0
         /\ sessions'[sid].verified = FALSE
         /\ sessions'[sid].createdAt = now'
         /\ sessions'[sid].phone = last'.phone
         /\ sessions'[sid].phoneNumber = Plus \o CountryCode \o last'.phone
         /\ \E s \in 1..Len(sends) :
              sends[s].body.phone = last'.phone /\ sends' = Without(sends, s)
         /\ \A id \in otpSessions' \ {sid} : sessions'[id] = sessions[id]
    ]_vars

\* A send has succeeded while an expired session was stored: the store
\* holds the new session and nothing else.
C20Witness ==
  /\ Delivered /\ TenDigits(last.phone)
  /\ deleted # {} /\ otpSessions = {last.sessionId}
  /\ sessions[last.sessionId].attempts = 0 /\ sessions[last.sessionId].createdAt = now

\* ======================================================================
\* verify-otp: the store under overlapping requests (Spec, SpecGuess)
\* ======================================================================
\* ---------------------------------------------------------------- C21
\* C21: a session id that has been deleted from the store (by a success, by
\* the expiry check, by the attempts check or by the sweep) is never a key
\* of the store again; the gateway never issues an id twice, so no later
\* send-otp brings it back either.
C21NeverReinserted == deleted \cap otpSessions = {}

\* ---------------------------------------------------------------- C22
\* C22: for any one session the gateway's verifyOTP is invoked at most three
\* times with a wrong code.  Every request of SpecGuess carries a wrong
\* code, so the invocations made for a session are the failures counted in
\* its attempts plus the requests waiting for the gateway.
GuessesInFlight(sid) ==
  {c \in 1..Len(calls) : calls[c].sessionId = sid /\ calls[c].pc = "gateway"}
C22AtMostThreeGuesses ==
  \A sid \in DOMAIN sessions :
    sessions[sid].attempts + Cardinality(GuessesInFlight(sid)) <= MaxAttempts

\* ---------------------------------------------------------------- C23
\* C23: a verify-otp request with both fields set is checked in the order
\* absent, expired, exhausted before the gateway is called.  For a session
\* id that is no key of the store it is answered "expired or invalid"; for
\* a stored session older than ten minutes, whatever its attempts, it is
\* answered "expired" and the session is deleted; for a stored session not
\* older than ten minutes with three attempts or more it is answered
\* "maximum attempts" and the session is deleted.  In all three cases the
\* request is answered at once, no request goes to the gateway and no
\* session object changes (a deleted one may become garbage).
C23GuardOrder ==
  [][ \A sid \in DOMAIN sessions \cup {-1} :
        ( /\ Arrives(sid)
          /\ \/ sid \notin otpSessions
             \/ Age(sid) > TenMinutes
             \/ sessions[sid].attempts >= MaxAttempts )
        => /\ ArrivesAndAnswered(sid)
           /\ last'.resp.status = 400
           /\ last'.resp.message =
                IF sid \notin otpSessions THEN MsgAbsent
                ELSE IF Age(sid) > TenMinutes THEN MsgExpired
                ELSE MsgMaxAttempts
           /\ otpSessions' = otpSessions \ {sid}
           /\ \A id \in DOMAIN sessions :
                sessions'[id] = sessions[id] \/ (id = sid /\ sessions'[id] = Freed)
           /\ MsgAbsent # MsgExpired /\ MsgExpired # MsgMaxAttempts
              /\ MsgAbsent # MsgMaxAttempts
    ]_vars

\* A request for a session that was both expired and exhausted has been
\* answered "expired"; an earlier request still in flight holds the session
\* object, with its three attempts.
C23Witness ==
  /\ VerifyAnswered /\ last.resp.message = MsgExpired
  /\ ~Stored(last.sessionId)
  /\ sessions[last.sessionId].attempts >= MaxAttempts
  /\ now - sessions[last.sessionId].createdAt > TenMinutes

\* ---------------------------------------------------------------- C24
\* C24: the step in which the gateway call of a verify-otp request comes
\* back as a failure adds exactly 1 to the attempts of the request's
\* session, answers 400 with N = 3 - (the new attempts) attempts remaining,
\* has the session in the store afterwards, and changes nothing else: no
\* other field of the session, no other session, no other key of the store,
\* no user and no lead.
C24FailureCountsOne ==
  [][ \A c \in 1..Len(calls) :
        GatewayFails(c)
        => LET sid == calls[c].sessionId IN
           /\ sessions'[sid].attempts = sessions[sid].attempts + 1
           /\ last'.resp.status = 400 /\ last'.resp.message = MsgInvalidOtp
           /\ last'.resp.remaining = MaxAttempts - sessions'[sid].attempts
           /\ sid \in otpSessions'
           /\ otpSessions' \ {sid} = otpSessions \ {sid}
           /\ sessions' = [sessions EXCEPT ![sid].attempts = @ + 1]
           /\ users' = users /\ leads' = leads
    ]_vars

\* The first failure of a session has been answered "2 attempts remaining"
\* while a user and a lead of an earlier verification are stored.
C24Witness ==
  /\ VerifyAnswered /\ last.resp.message = MsgInvalidOtp /\ last.resp.remaining = 2
  /\ Stored(last.sessionId) /\ sessions[last.sessionId].attempts = 1
  /\ Len(users) = 1 /\ Len(leads) = 1

\* ======================================================================
\* Frame of the flow: sweep, leads, upsert
\* ======================================================================
\* ---------------------------------------------------------------- C25
\* C25: the sweep runs with every session create.  In the step that answers
\* a send-otp request with success, every stored session older than ten
\* minutes leaves the store, every stored session not older than ten minutes
\* stays with all its fields, the new session is stored, and afterwards no
\* key of the store belongs to a session older than ten minutes.
C25SweepOnCreate ==
  [][ (last'.kind = "send" /\ last'.resp.status = 200)
      => /\ \A id \in otpSessions :
              IF Age(id) > TenMinutes
              THEN id \notin otpSessions'
              ELSE id \in otpSessions' /\ sessions'[id] = sessions[id]
         /\ last'.sessionId \in otpSessions'
         /\ otpSessions' \subseteq otpSessions \cup {last'.sessionId}
         /\ \A id \in otpSessions' : now' - sessions'[id].createdAt <= TenMinutes
    ]_vars

\* A send has succeeded and swept a session older than ten minutes, whose
\* object a verify-otp request in flight still holds.
C25Witness ==
  /\ last.kind = "send" /\ last.resp.status = 200
  /\ \E id \in deleted \ otpSessions :
       /\ id # last.sessionId
       /\ now - sessions[id].createdAt > TenMinutes
       /\ \E c \in 1..Len(calls) : calls[c].sessionId = id

\* ---------------------------------------------------------------- C26
\* This step ends request c in flight: its answer is sent.
EndsCall(c) ==
  /\ calls' = Without(calls, c)
  /\ last'.kind = "verify" /\ last'.sessionId = calls[c].sessionId

\* This step appends exactly one Lead, of the claimed shape, and leaves the
\* leads stored before as they were.
AppendsOneLead ==
  /\ Len(leads') = Len(leads) + 1
  /\ SubSeq(leads', 1, Len(leads)) = leads
  /\ LET lead == leads'[Len(leads')] IN
       lead.status = "new" /\ lead.priority = "medium" /\ lead.notes = 1

\* No step modifies or removes a stored Lead.
LeadsAppendOnly ==
  /\ Len(leads') >= Len(leads)
  /\ SubSeq(leads', 1, Len(leads)) = leads

\* C26 (as claimed): every verify-otp call whose code the gateway confirmed
\* appends exactly one Lead (status "new", priority "medium", one note), and
\* no step of send-otp or verify-otp modifies or removes a stored Lead.
C26LeadPerConfirmation ==
  [][ /\ \A c \in 1..Len(calls) :
           (calls[c].confirmed /\ EndsCall(c)) => AppendsOneLead
      /\ LeadsAppendOnly
    ]_vars

\* C26 (amended): every verify-otp call answered with success has appended
\* exactly one Lead (status "new", priority "medium", one note); a call whose
\* code the gateway confirmed appends at most one Lead, and none when the
\* user lookup, the user write or the lead write fails; a Lead is appended
\* only by a call whose code the gateway confirmed; and no step of send-otp
\* or verify-otp modifies or removes a stored Lead.
C26LeadPerSuccess ==
  [][ /\ \A c \in 1..Len(calls) :
           EndsCall(c)
           => /\ (last'.resp.status = 200)
                   => (calls[c].confirmed /\ AppendsOneLead /\ last'.leadsCreated = 1)
              /\ (calls[c].pc # "saveLead") => (leads' = leads /\ last'.leadsCreated = 0)
              /\ last'.leadsCreated <= 1
      /\ LeadsAppendOnly
      /\ Len(leads') <= Len(leads) + 1
      /\ (leads' # leads)
           => \E c \in 1..Len(calls) :
                calls[c].confirmed /\ calls[c].pc = "saveLead" /\ EndsCall(c) /\ AppendsOneLead
      /\ \A c \in 1..Len(calls) :
           (~EndsCall(c) /\ Len(calls') = Len(calls)) => calls'[c].leadsCreated = 0
    ]_vars

\* Two verifications have succeeded, each with its own Lead.
C26Witness ==
  /\ Succeeded /\ last.confirmed /\ last.leadsCreated = 1
  /\ Len(leads) = 2
  /\ \A i \in 1..2 : leads[i].status = "new" /\ leads[i].priority = "medium"
                     /\ leads[i].notes = 1

\* ---------------------------------------------------------------- C27
\* This step applies the user write of request c for a user found stored.
UpdatesReturningUser(c) ==
  /\ calls[c].pc = "saveUser" /\ calls[c].isReturning
  /\ Len(calls') = Len(calls) /\ calls'[c].pc = "saveLead"

\* C27: the write for a stored user changes the name only when the caller
\* supplied a name that is not blank, not "User" and not the stored one,
\* changes the city only when the caller supplied a city that is not blank,
\* not the fallback "Delhi" and not the stored one, sets lastLogin to the
\* date the request took, and changes neither phoneNumber nor email nor any
\* other user.
C27UpsertOnlyNonDefault ==
  [][ \A c \in 1..Len(calls) :
        UpdatesReturningUser(c)
        => LET u == calls[c].userId
               body == calls[c]
           IN
           /\ Len(users') = Len(users)
           /\ \A i \in 1..Len(users) : i # u => users'[i] = users[i]
           /\ (users'[u].name # users[u].name)
                => (body.name \notin {"", "User"} /\ body.name # users[u].name
                    /\ users'[u].name = body.name)
           /\ (users'[u].city # users[u].city)
                => (body.city \notin {"", "Delhi"} /\ body.city # users[u].city
                    /\ users'[u].city = body.city)
           /\ users'[u].lastLogin = body.lastLogin
           /\ users'[u].phoneNumber = users[u].phoneNumber
           /\ users'[u].email = users[u].email
    ]_vars

\* ======================================================================
\* Routes around the flow: cookies, property deletes, watchlist
\* ======================================================================
\* ---------------------------------------------------------------- C28
\* The names of the cookies a successful verify-otp sets.
CredentialCookies == {"urbanesta_token", "token", "refreshToken", "userId"}

\* C28: once logout has answered, the client holds none of the cookies a
\* successful verify-otp sets; and a refresh-token request of a client that
\* holds the refresh token verify-otp delivered is not answered "Refresh
\* token not found".
C28CookiesConsistent ==
  /\ (reply.route = "logout")
       => \A h \in jar : h.name \notin CredentialCookies
  /\ (reply.route = "refresh-token" /\ \E h \in reply.held : h.value.type = "refresh")
       => ~(reply.status = 401 /\ reply.error = "Refresh token not found")

\* ---------------------------------------------------------------- C29
\* C29: a step removes a stored property only on behalf of a caller
\* authenticated as its creator; and a delete request of any other caller
\* for a stored property is answered with an error and leaves the
\* properties and every user's myProperties as they were.
C29OnlyCreatorDeletes ==
  [][ \A p \in PropertyIds :
        /\ (properties[p] # 0 /\ properties'[p] = 0)
             => (reply'.propertyId = p /\ reply'.caller = properties[p])
        /\ ( /\ properties[p] # 0
             /\ reply'.route \in {"delete-own", "delete-by-id"}
             /\ reply'.propertyId = p /\ reply'.status # 0
             /\ reply'.caller # properties[p] )
             => (reply'.status >= 400 /\ properties' = properties
                 /\ myProperties' = myProperties)
    ]_vars

\* ---------------------------------------------------------------- C30
NoDuplicates(array) ==
  \A i, j \in 1..Len(array) : array[i] = array[j] => i = j

\* This step is a write of an add of property p for user u.
AddsTo(u, p) ==
  \/ \E r \in 1..Len(reqs) :
       /\ reqs[r].route = "watch-add" /\ reqs[r].pc = "save"
       /\ reqs[r].caller = u /\ reqs[r].propertyId = p
       /\ reqs' = Without(reqs, r)
  \/ reply'.route = "watch-addToSet" /\ reply'.user = u /\ reply'.propertyId = p
                                     /\ reqs' = reqs

\* C30: after every step of the watchlist routes no watchlist holds a
\* property more than once, and a step that adds a property to a watchlist
\* which holds it leaves that watchlist as it was.
C30WatchlistIsSet ==
  [][ /\ \A u \in UserIds : NoDuplicates(watchlist'[u])
      /\ \A u \in UserIds, p \in PropertyIds :
           (Includes(watchlist[u], p) /\ AddsTo(u, p)) => watchlist'[u] = watchlist[u]
    ]_vars
====
